---------------------------- MODULE Spec2Model ----------------------------
(***************************************************************************)
(* Model of the notebook Acoustic_TF_LSTM_MFCC.ipynb: windowing and MFCC   *)
(* feature extraction, one-hot encoding, train/evaluation split, the       *)
(* mini-batch training loop, and the inference cell that aggregates the    *)
(* per-window predictions of one recording.                                *)
(*                                                                         *)
(* A recording is abstracted to what the code looks at: its number of      *)
(* samples and whether its standard deviation is zero.  A feature window   *)
(* is abstracted to the recording and the sample slice it was cut from     *)
(* and whether its values are finite.  The trainable parameters are        *)
(* abstracted to the number of optimizer steps applied to them.            *)
(***************************************************************************)
EXTENDS Integers, Sequences, FiniteSets, TLC

VARIABLES
    \* ---- the generator  windows(data, window_size)  on its own
    g_len,          \* len(data)
    g_window_size,  \* window_size
    g_start,        \* the generator's local  start
    g_pair,         \* the pair handed out by the last yield, <<>> before it
    g_prev,         \* the pair handed out by the yield before that, <<>> if none
    g_pc,           \* "test" | "yield" | "suspended" | "done"
    \* ---- extract_features (cells 3, 4)
    frames,         \* the frames argument
    sound_names,    \* the sound_names argument, one label per file
    clips,          \* the clips librosa.load returned so far, one per file
    mfccs,          \* the local list mfccs
    labels,         \* the local list labels
    xpc,            \* "loop" | "returned" | "raised" | "off"
    \* ---- one_hot_encode and train_test_split (cells 4, 6)
    features,       \* features, the array extract_features returned
    columns,        \* the columns of pd.get_dummies(labels)
    onehot,         \* labels after one_hot_encode, one row per window
    X_train, X_test, y_train, y_test,
    dpc,            \* "raw" | "encoded" | "split" | "raised" | "off"
    \* ---- the training cell (cells 7 to 11)
    batch_size, training_iters, display_step,
    itr,            \* the loop variable itr
    offset, batch_x, batch_y,
    params,         \* the session's variables: the optimizer steps applied to them
    checkpoint,     \* <<>> or <<the parameters saved in ./model/acoustic.ckpt>>
    fed_op,         \* what the last session.run fetched
    fed_x,          \* what the last session.run was fed for x
    eval_reads,     \* how many session.run calls were fed X_test
    tpc,            \* "loop" | "report" | "tested" | "saved" | "raised" | "off"
    \* ---- the inference cells (cells 12, 13)
    test_clip,      \* the recording in test_new_60Hz.wav
    test_features, y_predicts,
    predicted_logit, predicted_label, predicted_probability,
    ipc             \* "start" | "extracted" | "predicted" | "done" | "raised" | "off"

genVars == <<g_len, g_window_size, g_start, g_pair, g_prev, g_pc>>
exVars  == <<frames, sound_names, clips, mfccs, labels, xpc>>
dsVars  == <<features, columns, onehot, X_train, X_test, y_train, y_test, dpc>>
trVars  == <<batch_size, training_iters, display_step, itr, offset, batch_x, batch_y,
             params, checkpoint, fed_op, fed_x, eval_reads, tpc>>
infVars == <<test_clip, test_features, y_predicts,
             predicted_logit, predicted_label, predicted_probability, ipc>>
vars    == <<genVars, exVars, dsVars, trVars, infVars>>

----------------------------------------------------------------------------
\* Bounds of the model.
MaxFrames   == 3    \* frames is drawn from 1..MaxFrames
MaxLenUnits == 4    \* a recording has k * LenUnit samples, k in 0..MaxLenUnits
MaxFiles    == 2    \* sound_file_paths holds at most MaxFiles files
MaxSplit    == 3    \* every shuffle is explored for corpora of at most MaxSplit windows

LenUnit == 384

\* Program constants.
HopLength == 512                    \* samples per audio frame
Bands     == 20                     \* bands = 20
ClassNames == {"new", "used", "red"}

Lengths == {k * LenUnit : k \in 0..MaxLenUnits}

----------------------------------------------------------------------------
\* Helpers on sequences.
Range(s) == {s[k] : k \in DOMAIN s}

RECURSIVE SeqsUpTo(_, _)
SeqsUpTo(S, n) ==
    IF n = 0 THEN {<<>>}
    ELSE LET shorter == SeqsUpTo(S, n - 1)
         IN  shorter \cup {Append(s, x) : s \in {t \in shorter : Len(t) = n - 1}, x \in S}

----------------------------------------------------------------------------
\* window_size = 512 * (frames - 1)
WindowSize(fr) == HopLength * (fr - 1)

\* start += (window_size / 2): window_size is a multiple of 512, so the float
\* quotient is a whole number and int(start) is exact.
BadWindowStep(window_size) == window_size
WindowStep(window_size) == window_size \div 2

\* yield int(start), int(start + window_size)
WindowPair(start, window_size) == <<start, start + window_size>>

----------------------------------------------------------------------------
\* The generator windows(data, window_size), one action per step of its body.

GenOff == /\ g_len = 0 /\ g_window_size = 0 /\ g_start = 0
          /\ g_pair = <<>> /\ g_prev = <<>> /\ g_pc = "off"

\* while start < len(data):
GenTest ==
    /\ g_pc = "test"
    /\ g_pc' = IF g_start < g_len THEN "yield" ELSE "done"
    /\ UNCHANGED <<g_len, g_window_size, g_start, g_pair, g_prev>>

\* yield int(start), int(start + window_size)
GenYield ==
    /\ g_pc = "yield"
    /\ g_prev' = g_pair
    /\ g_pair' = WindowPair(g_start, g_window_size)
    /\ g_pc' = "suspended"
    /\ UNCHANGED <<g_len, g_window_size, g_start>>

\* the consumer asks for the next pair: start += (window_size / 2)
GenAdvance ==
    /\ g_pc = "suspended"
    /\ g_start' = g_start + WindowStep(g_window_size)
    /\ g_pc' = "test"
    /\ UNCHANGED <<g_len, g_window_size, g_pair, g_prev>>

ExOff == /\ frames = 0 /\ sound_names = <<>> /\ clips = <<>>
         /\ mfccs = <<>> /\ labels = <<>> /\ xpc = "off"

DsOff == /\ features = <<>> /\ columns = <<>> /\ onehot = <<>>
         /\ X_train = <<>> /\ X_test = <<>> /\ y_train = <<>> /\ y_test = <<>>
         /\ dpc = "off"

TrOff == /\ batch_size = 0 /\ training_iters = 0 /\ display_step = 0 /\ itr = 0
         /\ offset = 0 /\ batch_x = <<>> /\ batch_y = <<>> /\ params = 0
         /\ checkpoint = <<>> /\ fed_op = "none" /\ fed_x = <<>> /\ eval_reads = 0
         /\ tpc = "off"

InfOff == /\ test_clip = [len |-> 0, constant |-> FALSE] /\ test_features = <<>>
          /\ y_predicts = <<>> /\ predicted_logit = 0 /\ predicted_label = ""
          /\ predicted_probability = <<0, 0>> /\ ipc = "off"

\* The generator driven on its own, for any length and any frames >= 1.
WinInit ==
    /\ g_len \in Lengths
    /\ \E fr \in 1..MaxFrames : g_window_size = WindowSize(fr)
    /\ g_start = 0
    /\ g_pair = <<>> /\ g_prev = <<>>
    /\ g_pc = "test"
    /\ ExOff /\ DsOff /\ TrOff /\ InfOff

WinNext ==
    \/ GenTest  /\ UNCHANGED <<exVars, dsVars, trVars, infVars>>
    \/ GenYield /\ UNCHANGED <<exVars, dsVars, trVars, infVars>>
    \/ GenAdvance /\ UNCHANGED <<exVars, dsVars, trVars, infVars>>

\* The consumer's for loop keeps asking for the next pair and the generator's
\* body runs whenever it is asked: weak fairness on its steps.
SpecWin == WinInit /\ [][WinNext]_vars /\ WF_vars(WinNext)

----------------------------------------------------------------------------
\* Python slicing a[lo:hi] of a sequence of length n, for any integers lo, hi.
PyIndex(k, n) == IF k < 0 THEN (IF k + n < 0 THEN 0 ELSE k + n)
                 ELSE (IF k > n THEN n ELSE k)

PySliceLen(n, lo, hi) ==
    LET a == PyIndex(lo, n)
        b == PyIndex(hi, n)
    IN  IF b > a THEN b - a ELSE 0

PySlice(s, lo, hi) ==
    LET a == PyIndex(lo, Len(s))
        b == PyIndex(hi, Len(s))
    IN  IF b > a THEN SubSeq(s, a + 1, b) ELSE <<>>

----------------------------------------------------------------------------
\* feature_normalize(dataset): (dataset - mu) / sigma.  numpy divides by a zero
\* sigma without raising: every sample of the result is nan.  The result has the
\* length of its argument.
feature_normalize(dataset) ==
    [len |-> dataset.len, finite |-> ~dataset.constant]

\* windows(data, window_size) as the list of the pairs it yields
RECURSIVE WindowsFrom(_, _, _)
WindowsFrom(start, n, window_size) ==
    IF start < n
    THEN <<WindowPair(start, window_size)>>
         \o WindowsFrom(start + WindowStep(window_size), n, window_size)
    ELSE <<>>

windows(n, window_size) == WindowsFrom(0, n, window_size)

\* if(len(sound_clip[start:end]) == window_size)
BadKeepWindow(n, w, window_size) == w[1] < n
KeepWindow(n, w, window_size) == PySliceLen(n, w[1], w[2]) = window_size

\* librosa.feature.mfcc(y=signal, sr=s, n_mfcc=bands).T : one column per hop of
\* 512 samples (centered frames), transposed to frames x bands
MfccShape(n_samples, bands) == <<1 + (n_samples \div HopLength), bands>>

\* The windows one file contributes: the slices that pass the length test.
FileWindows(file, clip, window_size) ==
    LET kept == SelectSeq(windows(clip.len, window_size),
                          LAMBDA w : KeepWindow(clip.len, w, window_size))
    IN  [k \in 1..Len(kept) |->
            [file   |-> file,
             start  |-> kept[k][1],
             end    |-> kept[k][2],
             n      |-> PySliceLen(clip.len, kept[k][1], kept[k][2]),
             finite |-> clip.finite,
             shape  |-> MfccShape(PySliceLen(clip.len, kept[k][1], kept[k][2]), Bands)]]

\* labels.append(label), once for every mfccs.append(mfcc)
BadFileLabels(new, label) == IF new = <<>> THEN <<>> ELSE <<label>>
FileLabels(new, label) == [k \in 1..Len(new) |-> label]

\* The reference run of cells 2 and 4: six recordings of 10 s at 22050 Hz, frames = 41.
RefFrames == 41
RefLen    == 220500
RefNames  == <<"new", "new", "used", "used", "red", "red">>

\* The lengths librosa.load can return for a file of the run.
ClipLengths == IF frames = RefFrames THEN {RefLen} ELSE Lengths

\* One pass of the loop  for i, sound_file_path in enumerate(sound_file_paths).
\* mfcc on a signal that is not finite either raises (the run of extract_features
\* ends there) or returns nan coefficients, depending on the library's checks.
ExtractFile ==
    /\ xpc = "loop"
    /\ Len(clips) < Len(sound_names)
    /\ \E n \in ClipLengths, constant \in BOOLEAN :
         LET i          == Len(clips) + 1
             raw        == [len |-> n, constant |-> constant]
             sound_clip == feature_normalize(raw)
             label      == sound_names[i]
             new        == FileWindows(i, sound_clip, WindowSize(frames))
         IN  /\ clips' = Append(clips, raw)
             /\ \/ /\ mfccs' = mfccs \o new
                   /\ labels' = labels \o FileLabels(new, label)
                   /\ xpc' = "loop"
                \/ /\ ~sound_clip.finite
                   /\ Len(new) > 0
                   /\ xpc' = "raised"
                   /\ UNCHANGED <<mfccs, labels>>
    /\ UNCHANGED <<frames, sound_names>>

\* features = np.asarray(mfccs); return np.array(features), np.array(labels)
ExtractReturn ==
    /\ xpc = "loop"
    /\ Len(clips) = Len(sound_names)
    /\ xpc' = "returned"
    /\ features' = mfccs
    /\ dpc' = "raw"
    /\ UNCHANGED <<frames, sound_names, clips, mfccs, labels>>
    /\ UNCHANGED <<columns, onehot, X_train, X_test, y_train, y_test>>

----------------------------------------------------------------------------
\* pd.get_dummies(labels): one column per distinct label, the columns in the
\* sorted (lexicographic, by character code) order of the labels.
CharCodes(name) ==
    CASE name = "new"  -> <<110, 101, 119>>
      [] name = "red"  -> <<114, 101, 100>>
      [] name = "used" -> <<117, 115, 101, 100>>

RECURSIVE LexLess(_, _)
LexLess(a, b) ==
    IF a = <<>> THEN b # <<>>
    ELSE IF b = <<>> THEN FALSE
    ELSE IF Head(a) # Head(b) THEN Head(a) < Head(b)
    ELSE LexLess(Tail(a), Tail(b))

RECURSIVE SortedNames(_)
SortedNames(S) ==
    IF S = {} THEN <<>>
    ELSE LET least == CHOOSE x \in S :
                        \A y \in S \ {x} : LexLess(CharCodes(x), CharCodes(y))
         IN  <<least>> \o SortedNames(S \ {least})

DummyColumns(ls) == SortedNames(Range(ls))

one_hot_encode(ls) ==
    LET cols == DummyColumns(ls)
    IN  [k \in 1..Len(ls) |->
            [j \in 1..Len(cols) |-> IF cols[j] = ls[k] THEN 1 ELSE 0]]

\* labels = one_hot_encode(labels)
OneHotEncode ==
    /\ dpc = "raw"
    /\ columns' = DummyColumns(labels)
    /\ onehot' = one_hot_encode(labels)
    /\ dpc' = "encoded"
    /\ UNCHANGED <<features, X_train, X_test, y_train, y_test>>
    /\ UNCHANGED exVars

----------------------------------------------------------------------------
\* train_test_split(features, labels, test_size=0.2, random_state=10): the
\* seeded shuffle is some permutation of the indices; the first
\* ceil(0.2 * n) shuffled indices are the evaluation split, the others the
\* training split, and both arrays are indexed by the same indices.
TestDenominator == 5    \* test_size = 0.2 = 1 / 5

NTest(n) == (n + TestDenominator - 1) \div TestDenominator

Perms(n) == {p \in [1..n -> 1..n] : \A a, b \in 1..n : p[a] = p[b] => a = b}

\* For larger corpora the shuffles explored are three rotations of the index
\* order and of its reverse.
Shuffles(n) ==
    LET rot(r) == [k \in 1..n |-> ((k - 1 + r) % n) + 1]
        by     == {0, 1, NTest(n)}
    IN  {rot(r) : r \in by} \cup {[k \in 1..n |-> n + 1 - rot(r)[k]] : r \in by}

SplitPerms(n) == IF n <= MaxSplit THEN Perms(n) ELSE Shuffles(n)


Take(arr, idx) == [k \in 1..Len(idx) |-> arr[idx[k]]]

TrainTestSplit ==
    /\ dpc = "encoded"
    /\ \/ /\ Len(features) = 0          \* no sample to split: ValueError
          /\ dpc' = "raised"
          /\ UNCHANGED <<X_train, X_test, y_train, y_test>>
       \/ /\ Len(features) > 0
          /\ \E perm \in SplitPerms(Len(features)) :
               LET n      == Len(features)
                   test   == SubSeq(perm, 1, NTest(n))
                   train  == SubSeq(perm, NTest(n) + 1, n)
               IN  /\ X_train' = Take(features, train)
                   /\ X_test'  = Take(features, test)
                   /\ y_train' = Take(onehot, train)
                   /\ y_test'  = Take(onehot, test)
          /\ dpc' = "split"
    /\ UNCHANGED <<features, columns, onehot>>
    /\ UNCHANGED exVars

----------------------------------------------------------------------------
\* Cells 3 to 6: extract_features over the training files, one_hot_encode,
\* train_test_split.  frames = 1 gives window_size = 0, with which the loop over
\* windows(...) of a non-empty recording never ends (see SpecWin): extraction is
\* followed for frames >= 2.
ExtractInit ==
    /\ \/ /\ frames \in 2..MaxFrames
          /\ sound_names \in SeqsUpTo(ClassNames, MaxFiles)
       \/ /\ frames = RefFrames
          /\ sound_names = RefNames
    /\ clips = <<>> /\ mfccs = <<>> /\ labels = <<>>
    /\ xpc = "loop"
    /\ features = <<>> /\ columns = <<>> /\ onehot = <<>>
    /\ X_train = <<>> /\ X_test = <<>> /\ y_train = <<>> /\ y_test = <<>>
    /\ dpc = "off"
    /\ GenOff /\ TrOff /\ InfOff

ExtractNext ==
    \/ ExtractFile /\ UNCHANGED <<genVars, dsVars, trVars, infVars>>
    \/ ExtractReturn /\ UNCHANGED <<genVars, trVars, infVars>>
    \/ OneHotEncode /\ UNCHANGED <<genVars, trVars, infVars>>
    \/ TrainTestSplit /\ UNCHANGED <<genVars, trVars, infVars>>

SpecExtract == ExtractInit /\ [][ExtractNext]_vars

----------------------------------------------------------------------------
\* Properties of cells 3 to 6.

\* The files whose pass of the loop ran to its end.
Completed == {f \in 1..Len(clips) : ~(xpc = "raised" /\ f = Len(clips))}

WindowsOf(f) == SelectSeq(mfccs, LAMBDA w : w.file = f)

WindowCount(n, window_size) ==
    IF n >= window_size THEN ((n - window_size) \div (window_size \div 2)) + 1 ELSE 0

\* C4: for every recording of length L whose extraction ran to its end, the
\* kept windows start at 0, window_size/2, 2*(window_size/2), ... in this order
\* and there are floor((L - window_size) / (window_size/2)) + 1 of them when
\* L >= window_size and none otherwise; the reference run (6 recordings of
\* 220500 samples, frames = 41) returns 120 windows.
C4_WindowStartsAndCount ==
    /\ \A f \in Completed :
         LET ws == WindowSize(frames)
             w  == WindowsOf(f)
         IN  /\ Len(w) = WindowCount(clips[f].len, ws)
             /\ \A k \in 1..Len(w) : w[k].start = (k - 1) * (ws \div 2)
    /\ (xpc = "returned" /\ frames = RefFrames) => Len(features) = 120

C4_Witness ==
    /\ xpc = "returned" /\ frames = RefFrames /\ Len(features) = 120
    /\ features[20].start = 19 * 10240 /\ features[21].start = 0

RowName(row) == columns[CHOOSE j \in 1..Len(row) : row[j] = 1]

PairedSplit(X, y) ==
    /\ Len(X) = Len(y)
    /\ \A k \in 1..Len(X) :
         /\ Cardinality({j \in 1..Len(y[k]) : y[k][j] = 1}) = 1
         /\ RowName(y[k]) = sound_names[X[k].file]

\* C5: the feature list and the label list have the same length and the label
\* at every position is the label of the recording the window at that position
\* was cut from; after the split every window of either part is still paired
\* with the one-hot row of that label.
C5_LabelsAligned ==
    /\ Len(mfccs) = Len(labels)
    /\ \A k \in 1..Len(mfccs) : labels[k] = sound_names[mfccs[k].file]
    /\ dpc = "split" => /\ PairedSplit(X_train, y_train)
                        /\ PairedSplit(X_test, y_test)
                        /\ Len(X_train) + Len(X_test) = Len(features)

C5_Witness ==
    /\ dpc = "split"
    /\ Len(X_train) >= 2
    /\ X_train[1].file > X_train[2].file
    /\ RowName(y_train[1]) # RowName(y_train[2])
    /\ Len(X_test) >= 1

\* C6: a recording whose samples are constant contributes no window to the
\* corpus and does not end the run: the loop goes on to the next recording.
C6_DegenerateSkipped ==
    \A f \in 1..Len(clips) :
        clips[f].constant =>
            /\ WindowsOf(f) = <<>>
            /\ xpc # "raised"

\* C8: every slice turned into a feature window has exactly window_size
\* samples and lies inside its recording, and every feature window has the
\* shape frames x bands.
C8_FixedShape ==
    \A k \in 1..Len(mfccs) :
        LET w == mfccs[k]
        IN  /\ w.n = WindowSize(frames)
            /\ w.end - w.start = WindowSize(frames)
            /\ 0 <= w.start
            /\ w.end <= clips[w.file].len
            /\ w.shape = <<frames, Bands>>

\* a recording whose last candidate windows run past its end, skipped
C8_Witness ==
    \E f \in Completed :
        /\ Len(WindowsOf(f)) >= 2
        /\ Len(windows(clips[f].len, WindowSize(frames))) > Len(WindowsOf(f))
        /\ clips[f].len % WindowSize(frames) # 0

----------------------------------------------------------------------------
\* Cells 7 to 11: the training loop.

\* More bounds of the model.
MaxPerFile     == 2    \* the training corpus holds 1..MaxPerFile windows of each file
MaxBatch       == 3    \* batch_size is drawn from 1..MaxBatch
MaxIters       == 6    \* training_iters is drawn from 0..MaxIters
MaxDisplay     == 2    \* display_step is drawn from 1..MaxDisplay
MaxTestWindows == 5    \* the test recording holds 0..MaxTestWindows whole windows

n_classes == 3
LABELS == <<"new", "used", "red">>

\* Python's a % b for a >= 0 and b # 0: the result has the sign of b.
PyMod(a, b) ==
    IF b > 0 THEN a % b
    ELSE IF a % (0 - b) = 0 THEN 0 ELSE (a % (0 - b)) + b

\* offset = (itr * batch_size) % (labels.shape[0] - batch_size)
BatchOffset(i, bs, n_labels) == PyMod(i * bs, n_labels - bs)

\* batch_x = X_train[offset:(offset + batch_size), :, :]
BadBatchSourceX == features
BatchSourceX == X_train

\* batch_y = y_train[offset:(offset + batch_size), :]
BatchSourceY == y_train

\* session.run([optimizer, loss_f], ...): one step of AdamOptimizer.minimize
AdamStep(p) == p + 1

\* session.run(accuracy, ...), session.run(loss_f, ...), session.run(prediction, ...)
\* and saver.save(session, ...) assign no variable.
BadEvaluate(p) == AdamStep(p)
Evaluate(p) == p

\* A feed is accepted when its rows have the placeholders' shapes:
\* x: [None, n_steps, n_input], y: [None, n_classes].
FeedOK(x, y) ==
    /\ \A k \in 1..Len(x) : x[k].shape = <<frames, Bands>>
    /\ \A k \in 1..Len(y) : Len(y[k]) = n_classes

\* The body of  for itr in range(training_iters)  up to the optimizer step.
TrainStep ==
    /\ dpc = "split"
    /\ tpc = "loop"
    /\ itr < training_iters
    /\ IF Len(onehot) - batch_size = 0
       THEN \* ZeroDivisionError
            /\ tpc' = "raised"
            /\ UNCHANGED <<itr, offset, batch_x, batch_y, params, fed_op, fed_x>>
       ELSE LET off == BatchOffset(itr, batch_size, Len(onehot))
                bx  == PySlice(BatchSourceX, off, off + batch_size)
                by  == PySlice(BatchSourceY, off, off + batch_size)
            IN  /\ offset' = off
                /\ batch_x' = bx
                /\ batch_y' = by
                /\ IF FeedOK(bx, by) /\ Len(columns) = n_classes
                   THEN /\ params' = AdamStep(params)
                        /\ fed_op' = "optimizer"
                        /\ fed_x' = bx
                        /\ IF itr % display_step = 0
                           THEN tpc' = "report" /\ itr' = itr
                           ELSE tpc' = "loop" /\ itr' = itr + 1
                   ELSE \* ValueError: cannot feed value of this shape
                        /\ tpc' = "raised"
                        /\ UNCHANGED <<itr, params, fed_op, fed_x>>
    /\ UNCHANGED <<batch_size, training_iters, display_step, checkpoint, eval_reads>>

\* if itr % display_step == 0: acc = session.run(accuracy, ...);
\* loss = session.run(loss_f, ...); print(...)
Report ==
    /\ tpc = "report"
    /\ params' = Evaluate(params)
    /\ fed_op' = "report"
    /\ fed_x' = batch_x
    /\ itr' = itr + 1
    /\ tpc' = "loop"
    /\ UNCHANGED <<batch_size, training_iters, display_step, offset, batch_x, batch_y,
                   checkpoint, eval_reads>>

\* print('Test accuracy: ', round(session.run(accuracy, feed_dict={x: X_test, ...})))
TestAccuracy ==
    /\ dpc = "split"
    /\ tpc = "loop"
    /\ itr = training_iters
    /\ IF FeedOK(X_test, y_test)
       THEN /\ params' = Evaluate(params)
            /\ fed_op' = "test accuracy"
            /\ fed_x' = X_test
            /\ eval_reads' = eval_reads + 1
            /\ tpc' = "tested"
       ELSE /\ tpc' = "raised"
            /\ UNCHANGED <<params, fed_op, fed_x, eval_reads>>
    /\ UNCHANGED <<batch_size, training_iters, display_step, itr, offset, batch_x,
                   batch_y, checkpoint>>

\* saver.save(session, save_path = "./model/acoustic.ckpt")
Save ==
    /\ tpc = "tested"
    /\ checkpoint' = <<params>>
    /\ tpc' = "saved"
    /\ ipc' = "start"
    /\ UNCHANGED <<batch_size, training_iters, display_step, itr, offset, batch_x,
                   batch_y, params, fed_op, fed_x, eval_reads>>
    /\ UNCHANGED <<test_clip, test_features, y_predicts,
                   predicted_logit, predicted_label, predicted_probability>>

----------------------------------------------------------------------------
\* Cells 12 and 13: inference on one unlabeled recording.

\* test_features,_ = extract_features('./data', ["test_new_60Hz.wav"], ["Unknown"])
\* with the default frames = 41
ExtractTest ==
    /\ ipc = "start"
    /\ test_features' =
           FileWindows(0, feature_normalize(test_clip), WindowSize(RefFrames))
    /\ ipc' = "extracted"
    /\ UNCHANGED <<test_clip, y_predicts, predicted_logit, predicted_label,
                   predicted_probability>>

\* One row of the softmax output, in halves: non-negative, summing to 1.
ProbRows == {r \in [1..n_classes -> 0..2] : r[1] + r[2] + r[3] = 2}

\* y_predicts = session.run(prediction, feed_dict={x: test_features, keep_prob: 1})
\* An empty test_features is an array of shape (0,), which x does not accept.
Predict ==
    /\ ipc = "extracted"
    /\ IF test_features # <<>> /\ FeedOK(test_features, <<>>)
       THEN /\ y_predicts' \in [1..Len(test_features) -> ProbRows]
            /\ params' = Evaluate(params)
            /\ fed_op' = "prediction"
            /\ fed_x' = test_features
            /\ ipc' = "predicted"
       ELSE /\ ipc' = "raised"
            /\ UNCHANGED <<y_predicts, params, fed_op, fed_x>>
    /\ UNCHANGED <<test_clip, test_features, predicted_logit, predicted_label,
                   predicted_probability>>
    /\ UNCHANGED <<batch_size, training_iters, display_step, itr, offset, batch_x,
                   batch_y, checkpoint, eval_reads, tpc>>

\* np.argmax(row): the first index (from 0) of a largest entry
NpArgmax(row) ==
    (CHOOSE j \in 1..Len(row) :
        /\ \A k \in 1..Len(row) : row[k] <= row[j]
        /\ \A k \in 1..(j - 1) : row[k] < row[j]) - 1

Occurrences(a, v) == Cardinality({k \in 1..Len(a) : a[k] = v})

\* scipy.stats.mode(a): the distinct values are visited in increasing order and
\* a value replaces the current mode when it occurs strictly more often.
BadBetterMode(n, count) == n >= count /\ n > 0
BetterMode(n, count) == n > count

RECURSIVE ModeScan(_, _, _, _)
ModeScan(a, v, best, count) ==
    IF v > n_classes - 1 THEN <<best, count>>
    ELSE IF BetterMode(Occurrences(a, v), count)
         THEN ModeScan(a, v + 1, v, Occurrences(a, v))
         ELSE ModeScan(a, v + 1, best, count)

StatsMode(a) == ModeScan(a, 0, 0, 0)

\* LABELS = [...]; predicted_logit = stats.mode(np.argmax(y_predicts,1))[0][0]
\* predicted_label = LABELS[predicted_logit]
\* predicted_probability = stats.mode(np.argmax(y_predicts,1))[1][0] / len(y_predicts)
Aggregate ==
    /\ ipc = "predicted"
    /\ LET idx  == [k \in 1..Len(y_predicts) |-> NpArgmax(y_predicts[k])]
           mode == StatsMode(idx)
       IN  /\ predicted_logit' = mode[1]
           /\ predicted_label' = LABELS[mode[1] + 1]
           /\ predicted_probability' = <<mode[2], Len(y_predicts)>>
    /\ ipc' = "done"
    /\ UNCHANGED <<test_clip, test_features, y_predicts>>

----------------------------------------------------------------------------
\* The corpus extract_features returns for recordings named  names  that hold
\* w whole windows each, with the notebook's frames = 41.
CorpusClip(w) ==
    [len |-> WindowSize(RefFrames) + (w - 1) * WindowStep(WindowSize(RefFrames)),
     constant |-> FALSE]

RECURSIVE CorpusWindows(_, _)
CorpusWindows(nfiles, w) ==
    IF nfiles = 0 THEN <<>>
    ELSE CorpusWindows(nfiles - 1, w)
         \o FileWindows(nfiles, feature_normalize(CorpusClip(w)), WindowSize(RefFrames))

RECURSIVE CorpusLabels(_, _)
CorpusLabels(names, w) ==
    IF names = <<>> THEN <<>>
    ELSE CorpusLabels(SubSeq(names, 1, Len(names) - 1), w)
         \o FileLabels([k \in 1..w |-> k], names[Len(names)])

CorpusNames == {<<"new", "used", "red">>, <<"red", "new", "used">>, <<"used", "new">>}

\* The state when cell 4 has called extract_features and cell 7 has set the
\* hyper-parameters.
CorpusInit(names, w) ==
    /\ frames = RefFrames
    /\ sound_names = names
    /\ clips = [f \in 1..Len(names) |-> CorpusClip(w)]
    /\ mfccs = CorpusWindows(Len(names), w)
    /\ labels = CorpusLabels(names, w)
    /\ xpc = "returned"
    /\ features = CorpusWindows(Len(names), w)

TrainInit ==
    /\ \E names \in CorpusNames, w \in 1..MaxPerFile : CorpusInit(names, w)
    /\ columns = <<>> /\ onehot = <<>>
    /\ X_train = <<>> /\ X_test = <<>> /\ y_train = <<>> /\ y_test = <<>>
    /\ dpc = "raw"
    /\ batch_size \in 1..MaxBatch
    /\ training_iters \in 0..MaxIters
    /\ display_step \in 1..MaxDisplay
    /\ itr = 0 /\ offset = 0 /\ batch_x = <<>> /\ batch_y = <<>>
    /\ params = 0 /\ checkpoint = <<>>
    /\ fed_op = "none" /\ fed_x = <<>> /\ eval_reads = 0
    /\ tpc = "loop"
    /\ test_clip = CorpusClip(1)
    /\ test_features = <<>> /\ y_predicts = <<>>
    /\ predicted_logit = 0 /\ predicted_label = ""
    /\ predicted_probability = <<0, 0>>
    /\ ipc = "off"
    /\ GenOff

TrainNext ==
    \/ OneHotEncode /\ UNCHANGED <<genVars, trVars, infVars>>
    \/ TrainTestSplit /\ UNCHANGED <<genVars, trVars, infVars>>
    \/ TrainStep /\ UNCHANGED <<genVars, exVars, dsVars, infVars>>
    \/ Report /\ UNCHANGED <<genVars, exVars, dsVars, infVars>>
    \/ TestAccuracy /\ UNCHANGED <<genVars, exVars, dsVars, infVars>>
    \/ Save /\ UNCHANGED <<genVars, exVars, dsVars>>
    \/ ExtractTest /\ UNCHANGED <<genVars, exVars, dsVars, trVars>>
    \/ Predict /\ UNCHANGED <<genVars, exVars, dsVars>>
    \/ Aggregate /\ UNCHANGED <<genVars, exVars, dsVars, trVars>>

SpecTrain == TrainInit /\ [][TrainNext]_vars

\* The state when cell 11 has trained and saved the model on the reference
\* corpus, with a test recording of 0..MaxTestWindows whole windows.
InferInit ==
    /\ CorpusInit(LABELS, 1)
    /\ columns = DummyColumns(labels)
    /\ onehot = one_hot_encode(labels)
    /\ X_train = Take(features, <<2, 3>>) /\ X_test = Take(features, <<1>>)
    /\ y_train = Take(onehot, <<2, 3>>) /\ y_test = Take(onehot, <<1>>)
    /\ dpc = "split"
    /\ batch_size = 1 /\ training_iters = 1 /\ display_step = 1
    /\ itr = 1 /\ offset = 0
    /\ batch_x = PySlice(X_train, 0, 1) /\ batch_y = PySlice(y_train, 0, 1)
    /\ params = AdamStep(0) /\ checkpoint = <<AdamStep(0)>>
    /\ fed_op = "test accuracy" /\ fed_x = X_test /\ eval_reads = 1
    /\ tpc = "saved"
    /\ \E w \in 0..MaxTestWindows : test_clip = CorpusClip(w)
    /\ test_features = <<>> /\ y_predicts = <<>>
    /\ predicted_logit = 0 /\ predicted_label = ""
    /\ predicted_probability = <<0, 0>>
    /\ ipc = "start"
    /\ GenOff

InferNext ==
    \/ ExtractTest /\ UNCHANGED <<genVars, exVars, dsVars, trVars>>
    \/ Predict /\ UNCHANGED <<genVars, exVars, dsVars>>
    \/ Aggregate /\ UNCHANGED <<genVars, exVars, dsVars, trVars>>

SpecInfer == InferInit /\ [][InferNext]_vars

----------------------------------------------------------------------------
\* Properties of the generator.

\* C7: for every sequence length and every window_size = 512 * (frames - 1)
\* with frames >= 1, the generator reaches the end of its loop, every pair it
\* yields spans window_size indices, and the first pair starts at index 0.
C7_GeneratorFinite ==
    /\ <>(g_pc = "done")
    /\ [](g_pc = "suspended" =>
            /\ g_pair[2] - g_pair[1] = g_window_size
            /\ (g_prev = <<>> => g_pair[1] = 0))

----------------------------------------------------------------------------
\* Properties of the training loop and of inference.

\* C1: the class name of column i of the one-hot label vectors is the class
\* name the inference cell returns for the aggregated index i.
C1_ClassOrderStable ==
    ipc = "done" => predicted_label = columns[predicted_logit + 1]

\* C2: the mini-batch of every parameter update holds exactly batch_size
\* examples, all of the training split, at an offset inside the training split.
C2_FullBatches ==
    fed_op \in {"optimizer", "report"} =>
        /\ Len(batch_x) = batch_size
        /\ Len(batch_y) = batch_size
        /\ Range(batch_x) \subseteq Range(X_train)
        /\ 0 <= offset
        /\ offset + batch_size <= Len(X_train)

ArgmaxIndices == [k \in 1..Len(y_predicts) |-> NpArgmax(y_predicts[k])]

\* C3: the aggregated class is the most frequent per-window argmax index, the
\* smallest one among the most frequent; the confidence is the number of
\* windows with that argmax over the number of windows, between 0 and 1;
\* [0,0,1,0,0] gives class 0 with 4/5 and [0,0,1,1] gives class 0 with 2/4.
C3_ModeAndConfidence ==
    ipc = "done" =>
        LET idx    == ArgmaxIndices
            cnt(c) == Occurrences(idx, c)
        IN  /\ Len(idx) = Len(test_features) /\ Len(idx) >= 1
            /\ predicted_logit \in 0..(n_classes - 1)
            /\ \A c \in 0..(n_classes - 1) :
                 /\ cnt(c) <= cnt(predicted_logit)
                 /\ cnt(c) = cnt(predicted_logit) => predicted_logit <= c
            /\ predicted_probability = <<cnt(predicted_logit), Len(idx)>>
            /\ 0 <= predicted_probability[1]
            /\ predicted_probability[1] <= predicted_probability[2]
            /\ idx = <<0, 0, 1, 0, 0>> =>
                 predicted_logit = 0 /\ predicted_probability = <<4, 5>>
            /\ idx = <<0, 0, 1, 1>> =>
                 predicted_logit = 0 /\ predicted_probability = <<2, 4>>

C3_Witness ==
    /\ ipc = "done"
    /\ ArgmaxIndices = <<1, 1, 2, 2>>
    /\ predicted_logit = 1
    /\ predicted_probability = <<2, 4>>

\* C9: the parameters change only in the optimizer step of a training
\* iteration; the progress report, the final test accuracy, the save and the
\* predictions of inference leave them as they are, and the checkpoint, written
\* once, holds the parameters as they are after the last iteration.
C9_OnlyOptimizerMutates ==
    [][/\ params' # params =>
            /\ tpc = "loop" /\ itr < training_iters
            /\ fed_op' = "optimizer"
            /\ params' = AdamStep(params)
       /\ fed_op' \in {"report", "test accuracy", "prediction"} /\ fed_op' # fed_op
            => params' = params
       /\ checkpoint' # checkpoint =>
            /\ tpc = "tested" /\ tpc' = "saved"
            /\ params' = params
            /\ checkpoint' = <<params>>
            /\ params = training_iters
       /\ ipc' \in {"predicted", "done"} => checkpoint' = <<params'>>
      ]_vars

C9_Witness ==
    /\ ipc = "done"
    /\ training_iters = MaxIters
    /\ display_step = 1
    /\ params = MaxIters
    /\ checkpoint = <<MaxIters>>

\* C10: no example of the evaluation split is in a mini-batch fed to a
\* parameter update or to a progress report; the evaluation split is fed
\* once, for the final accuracy, after the last iteration and before the
\* checkpoint is written.
C10_EvalSplitHeldOut ==
    /\ fed_op \in {"optimizer", "report"} => Range(fed_x) \cap Range(X_test) = {}
    /\ Range(batch_x) \cap Range(X_test) = {}
    /\ eval_reads <= 1
    /\ tpc \in {"loop", "report"} => eval_reads = 0 /\ checkpoint = <<>>
    /\ tpc = "raised" => checkpoint = <<>>
    /\ eval_reads = 1 => itr = training_iters /\ tpc \in {"tested", "saved"}
    /\ tpc = "tested" => eval_reads = 1 /\ checkpoint = <<>> /\ fed_x = X_test
    /\ tpc = "saved" => eval_reads = 1 /\ checkpoint # <<>>

C10_Witness ==
    /\ tpc = "saved"
    /\ eval_reads = 1
    /\ training_iters = MaxIters
    /\ Len(X_test) = 2
    /\ Len(batch_x) = batch_size
    /\ batch_size = 2

============================================================================
